---- MODULE Spec2Model ----
(***************************************************************************)
(* Model of d2core/d2map/d2maprenderer/renderer.go (OpenDiablo2):          *)
(* the MapRenderer, its three-pass Render, the debug overlay, the          *)
(* animation clock Advance and the palette resolution loadPaletteForAct.   *)
(***************************************************************************)
EXTENDS Integers, Sequences, FiniteSets, TLC

(***************************************************************************)
(* Natural numbers of arbitrary size, as little-endian sequences of limbs  *)
(* in radix 2^15 with no high zero limb (<<>> is 0).  They carry the       *)
(* 53-bit significands of float64 values, which exceed TLC's integers.     *)
(***************************************************************************)
Base == 2^15

Pow2(k) == 2^k

Limb(a, i) == IF i <= Len(a) THEN a[i] ELSE 0

RECURSIVE NatNorm(_)
NatNorm(a) ==
    IF a = <<>> THEN <<>>
    ELSE IF a[Len(a)] = 0 THEN NatNorm(SubSeq(a, 1, Len(a) - 1))
    ELSE a

RECURSIVE NatFromInt(_)
NatFromInt(n) ==
    IF n = 0 THEN <<>> ELSE <<n % Base>> \o NatFromInt(n \div Base)

RECURSIVE NatToInt(_)
NatToInt(a) ==
    IF a = <<>> THEN 0 ELSE a[1] + Base * NatToInt(Tail(a))

RECURSIVE AddLimbs(_, _, _, _)
AddLimbs(a, b, i, c) ==
    IF i > Len(a) /\ i > Len(b)
    THEN IF c = 0 THEN <<>> ELSE <<c>>
    ELSE LET s == Limb(a, i) + Limb(b, i) + c
         IN  <<s % Base>> \o AddLimbs(a, b, i + 1, s \div Base)

NatAdd(a, b) == AddLimbs(a, b, 1, 0)

RECURSIVE SubLimbs(_, _, _, _)
SubLimbs(a, b, i, c) ==
    IF i > Len(a) THEN <<>>
    ELSE LET d == Limb(a, i) - Limb(b, i) - c
         IN  IF d < 0 THEN <<d + Base>> \o SubLimbs(a, b, i + 1, 1)
                      ELSE <<d>> \o SubLimbs(a, b, i + 1, 0)

\* a - b for a >= b
NatSub(a, b) == NatNorm(SubLimbs(a, b, 1, 0))

RECURSIVE CmpLimbs(_, _, _)
CmpLimbs(a, b, i) ==
    IF i = 0 THEN 0
    ELSE IF a[i] < b[i] THEN -1
    ELSE IF a[i] > b[i] THEN 1
    ELSE CmpLimbs(a, b, i - 1)

\* -1, 0 or 1 as a < b, a = b, a > b
NatCmp(a, b) ==
    IF Len(a) < Len(b) THEN -1
    ELSE IF Len(a) > Len(b) THEN 1
    ELSE CmpLimbs(a, b, Len(a))

RECURSIVE MulSmallLimbs(_, _, _, _)
MulSmallLimbs(a, s, i, c) ==
    IF i > Len(a)
    THEN IF c = 0 THEN <<>> ELSE <<c>>
    ELSE LET p == a[i] * s + c
         IN  <<p % Base>> \o MulSmallLimbs(a, s, i + 1, p \div Base)

\* a * s for 0 <= s < Base
NatMulSmall(a, s) == IF s = 0 THEN <<>> ELSE MulSmallLimbs(a, s, 1, 0)

NatShlLimbs(a, k) == IF a = <<>> THEN <<>> ELSE [i \in 1..k |-> 0] \o a

\* a * 2^k
NatShl(a, k) == NatShlLimbs(NatMulSmall(a, Pow2(k % 15)), k \div 15)

\* a \div 2^k
NatShr(a, k) ==
    LET d == SubSeq(a, (k \div 15) + 1, Len(a))
        p == Pow2(k % 15)
    IN  NatNorm([i \in 1..Len(d) |->
                   (d[i] \div p) + (Limb(d, i + 1) % p) * (Base \div p)])

\* a % 2^k
NatLow(a, k) ==
    LET n == k \div 15
        p == Pow2(k % 15)
    IN  IF Len(a) <= n THEN a
        ELSE NatNorm(SubSeq(a, 1, n) \o <<a[n + 1] % p>>)

RECURSIVE BitLenSmall(_)
BitLenSmall(n) == IF n = 0 THEN 0 ELSE 1 + BitLenSmall(n \div 2)

NatBitLen(a) ==
    IF a = <<>> THEN 0 ELSE 15 * (Len(a) - 1) + BitLenSmall(a[Len(a)])

\* bit i of a, bit 0 the lowest
NatBit(a, i) == (Limb(a, (i \div 15) + 1) \div Pow2(i % 15)) % 2

RECURSIVE TzSmall(_)
TzSmall(n) == IF n % 2 = 1 THEN 0 ELSE 1 + TzSmall(n \div 2)

RECURSIVE TzLimbs(_, _)
TzLimbs(a, i) == IF a[i] = 0 THEN 15 + TzLimbs(a, i + 1) ELSE TzSmall(a[i])

\* number of trailing zero bits of a > 0
NatTz(a) == TzLimbs(a, 1)

RECURSIVE MulLimbs(_, _, _)
MulLimbs(a, b, j) ==
    IF j > Len(b) THEN <<>>
    ELSE NatAdd(NatMulSmall(a, b[j]), NatShlLimbs(MulLimbs(a, b, j + 1), 1))

NatMul(a, b) == MulLimbs(a, b, 1)

\* The quotient digit of rr by b, for rr < b * Base and b with its highest
\* limb at least Base / 2: the estimate from the two highest limbs of rr
\* is the digit or exceeds it by at most 2.
DivDigitFrom(rr, b, est) ==
    IF NatCmp(NatMulSmall(b, est), rr) <= 0 THEN est
    ELSE IF NatCmp(NatMulSmall(b, est - 1), rr) <= 0 THEN est - 1
    ELSE est - 2

DivEstimate(top, high) ==
    IF top \div high >= Base THEN Base - 1 ELSE top \div high

DivDigit(rr, b) ==
    DivDigitFrom(rr, b,
                 DivEstimate(Limb(rr, Len(b) + 1) * Base + Limb(rr, Len(b)),
                             b[Len(b)]))

\* one step of the long division: the digit and the remainder of rr by b
DivStep(rr, b, digit) == [q |-> digit, r |-> NatSub(rr, NatMulSmall(b, digit))]

RECURSIVE DivLimbs(_, _, _, _)
\* long division over the limbs i..1 of a, the highest first: the quotient
\* limbs, highest first, and the remainder
DivLimbs(a, b, i, r) ==
    LET s == DivStep(NatNorm(<<a[i]>> \o r), b,
                     DivDigit(NatNorm(<<a[i]>> \o r), b))
    IN  IF i = 1 THEN [q |-> <<s.q>>, r |-> s.r]
        ELSE LET rest == DivLimbs(a, b, i - 1, s.r)
             IN  [q |-> <<s.q>> \o rest.q, r |-> rest.r]

\* DivLimbs with the quotient limbs lowest first
DivNormal(d) ==
    [q |-> NatNorm([i \in 1..Len(d.q) |-> d.q[Len(d.q) + 1 - i]]), r |-> d.r]

\* quotient q and remainder r of a by b > 0, both scaled by 2^sh so that
\* the highest limb of the divisor is at least Base / 2 (r is the remainder
\* of the scaled division: zero exactly when b divides a)
NatDivModShifted(a, b, sh) ==
    DivNormal(DivLimbs(NatShl(a, sh), NatShl(b, sh), Len(NatShl(a, sh)), <<>>))

NatDivMod(a, b) ==
    IF a = <<>> THEN [q |-> <<>>, r |-> <<>>]
    ELSE NatDivModShifted(a, b, 15 - BitLenSmall(b[Len(b)]))

(***************************************************************************)
(* float64 (IEEE 754 binary64, round to nearest even), the type of         *)
(* lastFrameTime, elapsed and frameLength.  A value is (-1)^neg * m * 2^e  *)
(* with m odd (or zero), so each value has one representation; it is a     *)
(* float64 when m has at most MantBits bits (the exponent range is never   *)
(* approached by the values of this model).                                *)
(***************************************************************************)
MantBits == 53

FZero == [neg |-> FALSE, m |-> <<>>, e |-> 0]

FCanon(neg, m, e) ==
    IF m = <<>> THEN FZero
    ELSE LET t == NatTz(m)
         IN  [neg |-> neg, m |-> NatShr(m, t), e |-> e + t]

\* The float64 nearest to (-1)^neg * (m + s) * 2^e, where 0 < s < 1 when
\* sticky and s = 0 otherwise; exact tells whether no rounding happened.
FRound(neg, m, e, sticky) ==
    LET len == NatBitLen(m)
    IN  IF len <= MantBits
        THEN [f |-> FCanon(neg, m, e), exact |-> ~sticky]
        ELSE LET d    == len - MantBits
                 q    == NatShr(m, d)
                 rem  == NatLow(m, d)
                 half == NatShl(<<1>>, d - 1)
                 c    == NatCmp(rem, half)
                 up   == \/ c > 0
                         \/ c = 0 /\ sticky
                         \/ c = 0 /\ ~sticky /\ NatBit(q, 0) = 1
                 qr   == IF up THEN NatAdd(q, <<1>>) ELSE q
             IN  [f |-> FCanon(neg, qr, e + d),
                  exact |-> rem = <<>> /\ ~sticky]

\* the exact sum of two scaled integers, as sign, magnitude and exponent
ExactAdd(an, am, ae, bn, bm, be) ==
    LET emin == IF ae < be THEN ae ELSE be
        x    == NatShl(am, ae - emin)
        y    == NatShl(bm, be - emin)
    IN  IF an = bn THEN [neg |-> an, m |-> NatAdd(x, y), e |-> emin]
        ELSE IF NatCmp(x, y) >= 0
        THEN [neg |-> an, m |-> NatSub(x, y), e |-> emin]
        ELSE [neg |-> bn, m |-> NatSub(y, x), e |-> emin]

FAddR(a, b) ==
    LET s == ExactAdd(a.neg, a.m, a.e, b.neg, b.m, b.e)
    IN  FRound(s.neg, s.m, s.e, FALSE)

FNeg(a) == IF a.m = <<>> THEN a ELSE [a EXCEPT !.neg = ~a.neg]

FAdd(a, b) == FAddR(a, b).f

FSub(a, b) == FAdd(a, FNeg(b))

FMul(a, b) == FRound(a.neg # b.neg, NatMul(a.m, b.m), a.e + b.e, FALSE).f

\* a - b*c rounded once (a fused multiply-subtract)
FMulSub(a, b, c) ==
    LET s == ExactAdd(a.neg, a.m, a.e,
                      ~(b.neg # c.neg), NatMul(b.m, c.m), b.e + c.e)
    IN  FRound(s.neg, s.m, s.e, FALSE).f

\* a / b for b # 0, correctly rounded
FDiv(a, b) ==
    IF a.m = <<>> THEN FZero
    ELSE LET k0 == MantBits + 3 + NatBitLen(b.m) - NatBitLen(a.m)
             k  == IF k0 < 0 THEN 0 ELSE k0
             d  == NatDivMod(NatShl(a.m, k), b.m)
         IN  FRound(a.neg # b.neg, d.q, a.e - b.e - k, d.r # <<>>).f

\* float64(n) for an int n (|n| < 2^53, so exact)
FFromInt(n) == FCanon(n < 0, NatFromInt(IF n < 0 THEN -n ELSE n), 0)

\* int(a): truncation toward zero
FTruncInt(a) ==
    LET mag == IF a.e >= 0 THEN NatShl(a.m, a.e) ELSE NatShr(a.m, -a.e)
    IN  IF a.neg THEN -NatToInt(mag) ELSE NatToInt(mag)

FLess(a, b) ==
    LET s == ExactAdd(a.neg, a.m, a.e, ~b.neg, b.m, b.e)
    IN  s.m # <<>> /\ s.neg

\* the float64 a decimal literal of k hundredths denotes (0.25 is Dec(25))
Dec(k) == FDiv(FFromInt(k), FFromInt(100))

(***************************************************************************)
(* State.                                                                  *)
(***************************************************************************)
VARIABLES
    mapEngine,      \* mr.mapEngine: the bound map engine (size, tiles, ...)
    imageCache,     \* the tile image cache getImageCacheRecord reads
    debugVisLevel,  \* mr.debugVisLevel
    camera,         \* mr.camera: the camera position
    viewAlign,      \* the viewport's horizontal alignment
    tileVisible,    \* the tiles IsTileVisible reports visible
    transStack,     \* the viewport's translation stack
    transCurrent,   \* the viewport's current cumulative translation
    lastOp,         \* the operation that ran last
    calls,          \* the calls that operation issued, in order
    lastFrameTime,  \* mr.lastFrameTime (float64)
    currentFrame,   \* mr.currentFrame
    framesAdvanced, \* framesAdvanced of the last Advance
    wrapped,        \* whether some Advance reset currentFrame to 0
    elapsedLog,     \* the elapsed arguments of the Advance calls so far
    fusedBuild,     \* whether the build fuses x - y*z into one rounding
    regionArg,      \* the region loadPaletteForAct was last called with
    palette,        \* the palette loadPaletteForAct returned last
    paletteErr,     \* the error it returned last
    paletteLoads    \* the paths handed to d2asset.LoadPalette so far

renderVars == <<mapEngine, imageCache, debugVisLevel, camera, viewAlign,
                tileVisible, transStack, transCurrent>>

clockVars == <<lastFrameTime, currentFrame, framesAdvanced, wrapped,
               elapsedLog, fusedBuild>>

paletteVars == <<regionArg, palette, paletteErr, paletteLoads>>

vars == <<renderVars, lastOp, calls, clockVars, paletteVars>>

Nil == "nil"

\* a call an operation issues, as recorded in calls
NoImage == <<>>

Call(op, what, idx, x, y, img) ==
    [op |-> op, what |-> what, idx |-> idx, x |-> x, y |-> y, img |-> img,
     screen |-> FALSE, tile |-> <<-1, -1>>, pass |-> ""]

(***************************************************************************)
(* Advance: the animation clock.                                           *)
(***************************************************************************)
\* frameLength := 0.1
frameLength == Dec(10)

LastFrame == 9

\* mr.currentFrame += framesAdvanced; if mr.currentFrame > 9 { ... = 0 }
NextFrameOffByOne(frame, n) ==
    IF frame + n > LastFrame + 1 THEN 0 ELSE frame + n

\* a wrap that takes one cycle of 10 frames off the sum
NextFrameLessOneCycle(frame, n) ==
    IF frame + n > LastFrame THEN frame + n - (LastFrame + 1) ELSE frame + n

NextFrame(frame, n) == IF frame + n > LastFrame THEN 0 ELSE frame + n

\* mr.lastFrameTime -= float64(framesAdvanced) * frameLength.  Go may fuse
\* the statement into one rounding (arm64, ppc64le, s390x) or round the
\* product first (amd64).
Remainder(t, n, fused) ==
    IF fused THEN FMulSub(t, FFromInt(n), frameLength)
             ELSE FSub(t, FMul(FFromInt(n), frameLength))

\* the rest of Advance once framesAdvanced is n
AdvanceFrames(frame, t, n, fused) ==
    [currentFrame   |-> NextFrame(frame, n),
     lastFrameTime  |-> Remainder(t, n, fused),
     framesAdvanced |-> n,
     wrapped        |-> frame + n > LastFrame]

\* framesAdvanced := int(mr.lastFrameTime / frameLength)
AdvanceTime(frame, t, fused) ==
    AdvanceFrames(frame, t, FTruncInt(FDiv(t, frameLength)), fused)

\* The body of Advance on (currentFrame, lastFrameTime), starting with
\* mr.lastFrameTime += elapsed.
AdvanceState(frame, acc, elapsed, fused) ==
    AdvanceTime(frame, FAdd(acc, elapsed), fused)

\* the elapsed times the game loop passes, in hundredths of a second
ElapsedHundredths == {0, 5, 10, 25, 30, 50, 100, 125, 170, 250}

MaxCalls == 2

SetClock(r) ==
    /\ currentFrame' = r.currentFrame
    /\ lastFrameTime' = r.lastFrameTime
    /\ framesAdvanced' = r.framesAdvanced
    /\ wrapped' = (wrapped \/ r.wrapped)

Advance(k) ==
    /\ Len(elapsedLog) < MaxCalls
    /\ SetClock(AdvanceState(currentFrame, lastFrameTime, Dec(k), fusedBuild))
    /\ elapsedLog' = Append(elapsedLog, k)
    /\ lastOp' = "Advance"
    /\ calls' = <<>>
    /\ UNCHANGED <<renderVars, fusedBuild, paletteVars>>

InitClock(fused) ==
    /\ lastFrameTime = FZero
    /\ currentFrame = 0
    /\ framesAdvanced = 0
    /\ wrapped = FALSE
    /\ elapsedLog = <<>>
    /\ fusedBuild = fused

(***************************************************************************)
(* loadPaletteForAct.                                                      *)
(***************************************************************************)
Act1Regions == {"RegionAct1Town", "RegionAct1Wilderness", "RegionAct1Cave",
                "RegionAct1Crypt", "RegionAct1Monestary",
                "RegionAct1Courtyard", "RegionAct1Barracks", "RegionAct1Jail",
                "RegionAct1Cathedral", "RegionAct1Catacombs",
                "RegionAct1Tristram"}

Act2Regions == {"RegionAct2Town", "RegionAct2Sewer", "RegionAct2Harem",
                "RegionAct2Basement", "RegionAct2Desert", "RegionAct2Tomb",
                "RegionAct2Lair", "RegionAct2Arcane"}

Act3Regions == {"RegionAct3Town", "RegionAct3Jungle", "RegionAct3Kurast",
                "RegionAct3Spider", "RegionAct3Dungeon", "RegionAct3Sewer"}

Act4Regions == {"RegionAct4Town", "RegionAct4Mesa", "RegionAct4Lava",
                "RegionAct5Lava"}

Act5Regions == {"RegonAct5Town", "RegionAct5Siege", "RegionAct5Barricade",
                "RegionAct5Temple", "RegionAct5IceCaves", "RegionAct5Baal"}

\* region identifiers the switch has no case for: the zero identifier and
\* a value outside the enumeration
OtherRegions == {"RegionNone", "RegionUnknown"}

RegionIds == Act1Regions \cup Act2Regions \cup Act3Regions
             \cup Act4Regions \cup Act5Regions \cup OtherRegions

PalettePaths == {"PaletteAct1", "PaletteAct2", "PaletteAct3", "PaletteAct4",
                 "PaletteAct5"}

\* a switch whose default case falls back to the palette of act 1
PalettePathDefaultAct1(levelType) ==
    IF levelType \in Act2Regions THEN "PaletteAct2"
    ELSE IF levelType \in Act3Regions THEN "PaletteAct3"
    ELSE IF levelType \in Act4Regions THEN "PaletteAct4"
    ELSE IF levelType \in Act5Regions THEN "PaletteAct5"
    ELSE "PaletteAct1"

\* the switch of loadPaletteForAct: the palette path, or Nil in the
\* default case
PalettePath(levelType) ==
    IF levelType \in Act1Regions THEN "PaletteAct1"
    ELSE IF levelType \in Act2Regions THEN "PaletteAct2"
    ELSE IF levelType \in Act3Regions THEN "PaletteAct3"
    ELSE IF levelType \in Act4Regions THEN "PaletteAct4"
    ELSE IF levelType \in Act5Regions THEN "PaletteAct5"
    ELSE Nil

MaxLoads == 2

\* loadPaletteForAct(levelType); d2asset.LoadPalette succeeds or fails (ok)
LoadPaletteForAct(levelType, ok) ==
    /\ Len(paletteLoads) < MaxLoads
    /\ LET path == PalettePath(levelType)
       IN  IF path = Nil
           THEN /\ palette' = Nil
                /\ paletteErr' = "failed to find palette for region"
                /\ paletteLoads' = paletteLoads
                /\ calls' = <<>>
           ELSE /\ palette' = IF ok THEN path ELSE Nil
                /\ paletteErr' = IF ok THEN Nil ELSE "load failed"
                /\ paletteLoads' = Append(paletteLoads, path)
                /\ calls' = <<Call("d2asset.LoadPalette", path, 0, 0, 0, NoImage)>>
    /\ regionArg' = levelType
    /\ lastOp' = "loadPaletteForAct"
    /\ UNCHANGED <<renderVars, clockVars>>

InitPalette ==
    /\ regionArg = "RegionNone"
    /\ palette = Nil
    /\ paletteErr = Nil
    /\ paletteLoads = <<>>

(***************************************************************************)
(* The map engine's data: tile records and their wall, floor and shadow    *)
(* sub-records (d2ds1), entities, the walk mesh.                           *)
(***************************************************************************)
\* tile types (d2enum.TileType): one of each class the renderer tells apart,
\* and the types renderFloor and renderShadow look images up under
TypeFloor == 0

TypeShadow == 13

LeftWall == 1

SpecialTile1 == 10

Roof == 15

LowerWallsEquivalentToLeftWall == 16

LowerWall(type) == type \in 16..19

UpperWall(type) == type \in (1..9) \cup {12, 14}

Special(type) == type \in {10, 11}

WallRecord(type, style, prop1, hidden) ==
    [Type |-> type, Style |-> style, Sequence |-> 0, RandomIndex |-> 0,
     Prop1 |-> prop1, Hidden |-> hidden, YAdjust |-> 0]

FloorShadowRecord(style, prop1, hidden, animated) ==
    [Style |-> style, Sequence |-> 0, RandomIndex |-> 0, Prop1 |-> prop1,
     Hidden |-> hidden, Animated |-> animated, YAdjust |-> 0]

\* styles of sub-records, and those the map's tile library has images of
Styles == {1, 2}

TileLibrary == {1}

Drawn == CHOOSE style \in TileLibrary : TRUE

Missing == CHOOSE style \in Styles \ TileLibrary : TRUE

\* The tile records the maps are made of.  They cover: each wall class
\* drawn, hidden, without prop1 and without image; floors and shadows
\* drawn, hidden, without prop1, without image, animated; several
\* sub-records per list; the empty tile.
TileKinds == <<
    [Walls   |-> <<WallRecord(LowerWallsEquivalentToLeftWall, Drawn, 1, FALSE),
                   WallRecord(LeftWall, Drawn, 1, FALSE),
                   WallRecord(Roof, Drawn, 1, FALSE)>>,
     Floors  |-> <<FloorShadowRecord(Drawn, 1, FALSE, FALSE),
                   FloorShadowRecord(Drawn, 1, FALSE, TRUE)>>,
     Shadows |-> <<FloorShadowRecord(Drawn, 1, FALSE, FALSE)>>],
    [Walls   |-> <<WallRecord(Roof, Drawn, 1, TRUE),
                   WallRecord(LowerWallsEquivalentToLeftWall, Drawn, 1, TRUE),
                   WallRecord(LeftWall, Drawn, 1, TRUE)>>,
     Floors  |-> <<FloorShadowRecord(Drawn, 1, TRUE, FALSE),
                   FloorShadowRecord(Drawn, 1, FALSE, FALSE)>>,
     Shadows |-> <<FloorShadowRecord(Drawn, 1, TRUE, FALSE),
                   FloorShadowRecord(Drawn, 1, FALSE, FALSE)>>],
    [Walls   |-> <<WallRecord(LowerWallsEquivalentToLeftWall, Missing, 1, FALSE),
                   WallRecord(SpecialTile1, Drawn, 1, FALSE),
                   WallRecord(LeftWall, Missing, 1, FALSE),
                   WallRecord(Roof, Missing, 1, FALSE)>>,
     Floors  |-> <<FloorShadowRecord(Missing, 1, FALSE, FALSE)>>,
     Shadows |-> <<FloorShadowRecord(Missing, 1, FALSE, FALSE)>>],
    [Walls   |-> <<WallRecord(LowerWallsEquivalentToLeftWall, Drawn, 0, FALSE),
                   WallRecord(LeftWall, Drawn, 0, FALSE),
                   WallRecord(LowerWallsEquivalentToLeftWall, Drawn, 1, FALSE),
                   WallRecord(SpecialTile1, Drawn, 0, TRUE)>>,
     Floors  |-> <<FloorShadowRecord(Drawn, 0, FALSE, FALSE)>>,
     Shadows |-> <<FloorShadowRecord(Drawn, 0, FALSE, FALSE)>>],
    [Walls   |-> <<WallRecord(LeftWall, Missing, 1, FALSE),
                   WallRecord(LeftWall, Drawn, 1, FALSE),
                   WallRecord(Roof, Drawn, 0, FALSE)>>,
     Floors  |-> <<FloorShadowRecord(Drawn, 1, FALSE, FALSE),
                   FloorShadowRecord(Missing, 1, FALSE, TRUE),
                   FloorShadowRecord(Drawn, 1, FALSE, FALSE)>>,
     Shadows |-> <<FloorShadowRecord(Missing, 1, FALSE, FALSE),
                   FloorShadowRecord(Drawn, 1, FALSE, FALSE)>>],
    [Walls |-> <<>>, Floors |-> <<>>, Shadows |-> <<>>] >>

MaxWidth == 2

MapHeights == {2}

\* entity positions in half tiles: (0.5, 0.5), (-0.5, 0), (1, 1.5), (4.5, 4.5)
EntityPositions == << <<1, 1>>, <<-1, 0>>, <<2, 3>>, <<9, 9>> >>

\* The map engine number seed of the given size: tile number k of the
\* row-major sweep is of kind seed + k (cyclically); one sub-cell in
\* seven of the walk mesh is not walkable.
MapEngineOf(seed, width, height) ==
    [levelType |-> seed,
     size      |-> [Width |-> width, Height |-> height],
     tiles     |-> [k \in 1..(width * height) |->
                      TileKinds[((seed + k - 2) % Len(TileKinds)) + 1]],
     entities  |-> EntityPositions,
     walkMesh  |-> [i \in 1..(25 * width * height) |->
                      [Walkable |-> (i + seed) % 7 # 0]]]

\* the map engine before a map is loaded: level type 0
NoMap ==
    [levelType |-> 0, size |-> [Width |-> 0, Height |-> 0], tiles |-> <<>>,
     entities |-> <<>>, walkMesh |-> <<>>]

MapEngines ==
    {MapEngineOf(seed, w, h) :
        seed \in 1..Len(TileKinds), w \in 1..MaxWidth, h \in MapHeights}
    \cup {NoMap}

\* mr.mapEngine.TileAt(x, y)
TileAt(me, x, y) == me.tiles[y * me.size.Width + x + 1]

MaxHeight == CHOOSE h \in MapHeights : \A g \in MapHeights : g <= h

AllTiles == (0..(MaxWidth - 1)) \X (0..(MaxHeight - 1))

(***************************************************************************)
(* Calls.  Each operation yields the calls it issues on the viewport and   *)
(* on the target surface, in order.                                        *)
(***************************************************************************)
\* target.PushTranslation(viewport.GetTranslationScreen()): x and y are
\* read from the viewport when the call is made
PushTranslationScreen ==
    [Call("PushTranslation", "", 0, 0, 0, NoImage) EXCEPT !.screen = TRUE]

PushTranslationWorld(x, y) == Call("PushTranslationWorld", "", 0, x, y, NoImage)

PushTranslationOrtho(x, y) == Call("PushTranslationOrtho", "", 0, x, y, NoImage)

PopTranslation == Call("PopTranslation", "", 0, 0, 0, NoImage)

PushTranslation(x, y) == Call("PushTranslation", "", 0, x, y, NoImage)

PushColor == Call("PushColor", "", 0, 0, 0, NoImage)

Pop == Call("Pop", "", 1, 0, 0, NoImage)

PopN(n) == Call("PopN", "", n, 0, 0, NoImage)

LogUncached(what, idx) == Call("log.Printf", what, idx, 0, 0, NoImage)

RECURSIVE FlatRange(_, _, _)
FlatRange(ss, lo, hi) ==
    IF lo > hi THEN <<>>
    ELSE IF lo = hi THEN ss[lo]
    ELSE LET mid == (lo + hi) \div 2
         IN  FlatRange(ss, lo, mid) \o FlatRange(ss, mid + 1, hi)

\* the concatenation of a sequence of sequences
Flat(ss) == FlatRange(ss, 1, Len(ss))

Tagged(cs, tile, pass) ==
    [i \in 1..Len(cs) |-> [cs[i] EXCEPT !.tile = tile, !.pass = pass]]

(***************************************************************************)
(* The tile image cache.                                                   *)
(***************************************************************************)
\* the cache entries of one sub-record: an animated floor has one per frame
CacheKeys(style, sequence, type, randomIndex, animated) ==
    IF style \notin TileLibrary THEN {}
    ELSE IF animated
    THEN {<<style, sequence, type, f>> : f \in 0..LastFrame}
    ELSE {<<style, sequence, type, randomIndex>>}

\* generateTileCache: the images of every sub-record of the bound map
\* that the map's tile library has
generateTileCache(me) ==
    UNION {
        LET t == me.tiles[k]
        IN  UNION {CacheKeys(t.Walls[i].Style, t.Walls[i].Sequence,
                             t.Walls[i].Type, t.Walls[i].RandomIndex, FALSE) :
                       i \in 1..Len(t.Walls)}
            \cup
            UNION {CacheKeys(t.Floors[i].Style, t.Floors[i].Sequence,
                             TypeFloor, t.Floors[i].RandomIndex,
                             t.Floors[i].Animated) :
                       i \in 1..Len(t.Floors)}
            \cup
            UNION {CacheKeys(t.Shadows[i].Style, t.Shadows[i].Sequence,
                             TypeShadow, t.Shadows[i].RandomIndex, FALSE) :
                       i \in 1..Len(t.Shadows)}
        : k \in 1..Len(me.tiles)}

\* mr.getImageCacheRecord(style, sequence, tileType, randomIndex)
getImageCacheRecord(mr, style, sequence, tileType, randomIndex) ==
    IF <<style, sequence, tileType, randomIndex>> \in mr.imageCache
    THEN <<style, sequence, tileType, randomIndex>>
    ELSE NoImage

(***************************************************************************)
(* The viewport: coordinate conversions and the translation stack.         *)
(***************************************************************************)
\* NewViewport(0, 0, 800, 600)
ScreenWidth == 800

WorldToOrtho(x, y) == <<(x - y) * 80, (x + y) * 40>>

\* the horizontal shift of toLeft, toRight and resetAlign
AlignShift(align) ==
    IF align = "left" THEN -(ScreenWidth \div 4)
    ELSE IF align = "right" THEN ScreenWidth \div 4
    ELSE 0

OrthoToScreen(mr, o) ==
    LET c == WorldToOrtho(mr.camera[1], mr.camera[2])
    IN  <<o[1] - c[1] + AlignShift(mr.viewAlign), o[2] - c[2]>>

WorldToScreen(mr, x, y) == OrthoToScreen(mr, WorldToOrtho(x, y))

IsTileVisible(mr, x, y) == <<x, y>> \in mr.tileVisible

\* One call applied to the viewport vp = [stack, cur, out]: the viewport's
\* own calls change its stack, a call that reads GetTranslationScreen gets
\* its arguments, and the call is appended to out.
ExecCall(mr, vp, c) ==
    IF c.op = "PushTranslationWorld"
    THEN LET o == WorldToOrtho(c.x, c.y)
         IN  [stack |-> Append(vp.stack, vp.cur),
              cur   |-> <<vp.cur[1] + o[1], vp.cur[2] + o[2]>>,
              out   |-> Append(vp.out, c)]
    ELSE IF c.op = "PushTranslationOrtho"
    THEN [stack |-> Append(vp.stack, vp.cur),
          cur   |-> <<vp.cur[1] + c.x, vp.cur[2] + c.y>>,
          out   |-> Append(vp.out, c)]
    ELSE IF c.op = "PopTranslation"
    THEN IF vp.stack = <<>>
         THEN [vp EXCEPT !.out = Append(vp.out, [c EXCEPT !.op = "panic"])]
         ELSE [stack |-> SubSeq(vp.stack, 1, Len(vp.stack) - 1),
               cur   |-> vp.stack[Len(vp.stack)],
               out   |-> Append(vp.out, c)]
    ELSE IF c.screen
    THEN LET p == OrthoToScreen(mr, vp.cur)
         IN  [vp EXCEPT !.out = Append(vp.out,
                                       [c EXCEPT !.x = p[1], !.y = p[2]])]
    ELSE [vp EXCEPT !.out = Append(vp.out, c)]

RECURSIVE ExecRange(_, _, _, _, _)
\* cs[lo..hi] applied in order; the first half is evaluated before the
\* second half starts
ExecRange(mr, vp, cs, lo, hi) ==
    IF lo > hi THEN vp
    ELSE IF lo = hi THEN ExecCall(mr, vp, cs[lo])
    ELSE LET mid  == (lo + hi) \div 2
             left == ExecRange(mr, vp, cs, lo, mid)
         IN  IF Len(left.out) >= 0
             THEN ExecRange(mr, left, cs, mid + 1, hi)
             ELSE left

\* the calls cs made in order on the viewport [stack, cur]
Exec(mr, stack, cur, cs) ==
    ExecRange(mr, [stack |-> stack, cur |-> cur, out |-> <<>>], cs, 1, Len(cs))

(***************************************************************************)
(* Render.                                                                 *)
(***************************************************************************)
\* a renderWall whose cache-miss branch lacks the return
renderWallNoReturn(mr, tile, idx) ==
    LET img == getImageCacheRecord(mr, tile.Style, tile.Sequence, tile.Type,
                                   tile.RandomIndex)
    IN  (IF img = NoImage THEN <<LogUncached("wall", idx)>> ELSE <<>>)
        \o <<PushTranslationOrtho(-80, tile.YAdjust - 8),
             PushTranslationScreen,
             Call("Render", "wall", idx, 0, 0, img),
             Pop,
             PopTranslation>>

renderWall(mr, tile, idx) ==
    LET img == getImageCacheRecord(mr, tile.Style, tile.Sequence, tile.Type,
                                   tile.RandomIndex)
    IN  IF img = NoImage
        THEN <<LogUncached("wall", idx)>>
        ELSE <<PushTranslationOrtho(-80, tile.YAdjust - 8),
               PushTranslationScreen,
               Call("Render", "wall", idx, 0, 0, img),
               Pop,
               PopTranslation>>

renderFloor(mr, tile, idx) ==
    LET img == IF ~tile.Animated
               THEN getImageCacheRecord(mr, tile.Style, tile.Sequence,
                                        TypeFloor, tile.RandomIndex)
               ELSE getImageCacheRecord(mr, tile.Style, tile.Sequence,
                                        TypeFloor, mr.currentFrame % 256)
    IN  IF img = NoImage
        THEN <<LogUncached("floor", idx)>>
        ELSE <<PushTranslationOrtho(-80, tile.YAdjust),
               PushTranslationScreen,
               Call("Render", "floor", idx, 0, 0, img),
               Pop,
               PopTranslation>>

\* a renderShadow that leaves its translation on the viewport's stack
renderShadowNoPop(mr, tile, idx) ==
    LET img == getImageCacheRecord(mr, tile.Style, tile.Sequence, TypeShadow,
                                   tile.RandomIndex)
    IN  IF img = NoImage
        THEN <<LogUncached("shadow", idx)>>
        ELSE <<PushTranslationOrtho(-80, tile.YAdjust),
               PushTranslationScreen,
               PushColor,
               Call("Render", "shadow", idx, 0, 0, img),
               PopN(2)>>

\* a renderShadow that pops the tint and leaves its translation on the
\* surface
renderShadowPopOne(mr, tile, idx) ==
    LET img == getImageCacheRecord(mr, tile.Style, tile.Sequence, TypeShadow,
                                   tile.RandomIndex)
    IN  IF img = NoImage
        THEN <<LogUncached("shadow", idx)>>
        ELSE <<PushTranslationOrtho(-80, tile.YAdjust),
               PushTranslationScreen,
               PushColor,
               Call("Render", "shadow", idx, 0, 0, img),
               PopN(1),
               PopTranslation>>

renderShadow(mr, tile, idx) ==
    LET img == getImageCacheRecord(mr, tile.Style, tile.Sequence, TypeShadow,
                                   tile.RandomIndex)
    IN  IF img = NoImage
        THEN <<LogUncached("shadow", idx)>>
        ELSE <<PushTranslationOrtho(-80, tile.YAdjust),
               PushTranslationScreen,
               PushColor,
               Call("Render", "shadow", idx, 0, 0, img),
               PopN(2),
               PopTranslation>>

\* a renderTilePass1 whose loop over the floors comes first
renderTilePass1FloorsFirst(mr, tile) ==
    Flat([i \in 1..Len(tile.Floors) |->
            IF ~tile.Floors[i].Hidden /\ tile.Floors[i].Prop1 # 0
            THEN renderFloor(mr, tile.Floors[i], i) ELSE <<>>])
    \o
    Flat([i \in 1..Len(tile.Walls) |->
            IF ~tile.Walls[i].Hidden /\ tile.Walls[i].Prop1 # 0
               /\ LowerWall(tile.Walls[i].Type)
            THEN renderWall(mr, tile.Walls[i], i) ELSE <<>>])
    \o
    Flat([i \in 1..Len(tile.Shadows) |->
            IF ~tile.Shadows[i].Hidden /\ tile.Shadows[i].Prop1 # 0
            THEN renderShadow(mr, tile.Shadows[i], i) ELSE <<>>])

renderTilePass1(mr, tile) ==
    Flat([i \in 1..Len(tile.Walls) |->
            IF ~tile.Walls[i].Hidden /\ tile.Walls[i].Prop1 # 0
               /\ LowerWall(tile.Walls[i].Type)
            THEN renderWall(mr, tile.Walls[i], i) ELSE <<>>])
    \o
    Flat([i \in 1..Len(tile.Floors) |->
            IF ~tile.Floors[i].Hidden /\ tile.Floors[i].Prop1 # 0
            THEN renderFloor(mr, tile.Floors[i], i) ELSE <<>>])
    \o
    Flat([i \in 1..Len(tile.Shadows) |->
            IF ~tile.Shadows[i].Hidden /\ tile.Shadows[i].Prop1 # 0
            THEN renderShadow(mr, tile.Shadows[i], i) ELSE <<>>])

renderTilePass2(mr, tile) ==
    Flat([i \in 1..Len(tile.Walls) |->
            IF ~tile.Walls[i].Hidden /\ UpperWall(tile.Walls[i].Type)
            THEN renderWall(mr, tile.Walls[i], i) ELSE <<>>])

renderTilePass3(mr, tile) ==
    Flat([i \in 1..Len(tile.Walls) |->
            IF tile.Walls[i].Type = Roof
            THEN renderWall(mr, tile.Walls[i], i) ELSE <<>>])

\* int(entityX): the position in half tiles truncated toward zero
TruncHalf(h) == IF h >= 0 THEN h \div 2 ELSE -((-h) \div 2)

\* an entity loop that skips an entity only when both coordinates differ
renderEntitiesEitherCoordinate(mr, tileX, tileY) ==
    Flat([e \in 1..Len(mr.mapEngine.entities) |->
            IF TruncHalf(mr.mapEngine.entities[e][1]) # tileX
               /\ TruncHalf(mr.mapEngine.entities[e][2]) # tileY
            THEN <<>>
            ELSE <<PushTranslationScreen,
                   Call("entity.Render", "entity", e, 0, 0, NoImage),
                   Pop>>])

\* the entity loop of renderPass2 at the tile (tileX, tileY)
renderEntities(mr, tileX, tileY) ==
    Flat([e \in 1..Len(mr.mapEngine.entities) |->
            IF TruncHalf(mr.mapEngine.entities[e][1]) # tileX
               \/ TruncHalf(mr.mapEngine.entities[e][2]) # tileY
            THEN <<>>
            ELSE <<PushTranslationScreen,
                   Call("entity.Render", "entity", e, 0, 0, NoImage),
                   Pop>>])

\* the tile of step k of the sweep "for tileY ... for tileX ..."
SweepX(mr, k) == (k - 1) % mr.mapEngine.size.Width

SweepY(mr, k) == (k - 1) \div mr.mapEngine.size.Width

SweepLen(mr) == mr.mapEngine.size.Width * mr.mapEngine.size.Height

renderPass1(mr) ==
    Flat([k \in 1..SweepLen(mr) |->
            LET tileX == SweepX(mr, k)
                tileY == SweepY(mr, k)
            IN  IF IsTileVisible(mr, tileX, tileY)
                THEN Tagged(<<PushTranslationWorld(tileX, tileY)>>
                            \o renderTilePass1(mr, TileAt(mr.mapEngine, tileX, tileY))
                            \o <<PopTranslation>>,
                            <<tileX, tileY>>, "pass1")
                ELSE <<>>])

\* a renderPass2 that does not ask the viewport whether the tile is visible
renderPass2Unclipped(mr) ==
    Flat([k \in 1..SweepLen(mr) |->
            LET tileX == SweepX(mr, k)
                tileY == SweepY(mr, k)
            IN  Tagged(<<PushTranslationWorld(tileX, tileY)>>
                       \o renderTilePass2(mr, TileAt(mr.mapEngine, tileX, tileY))
                       \o renderEntities(mr, tileX, tileY)
                       \o <<PopTranslation>>,
                       <<tileX, tileY>>, "pass2")])

\* a renderPass2 that runs the entity loop of a tile before its walls
renderPass2EntitiesFirst(mr) ==
    Flat([k \in 1..SweepLen(mr) |->
            LET tileX == SweepX(mr, k)
                tileY == SweepY(mr, k)
            IN  IF IsTileVisible(mr, tileX, tileY)
                THEN Tagged(<<PushTranslationWorld(tileX, tileY)>>
                            \o renderEntities(mr, tileX, tileY)
                            \o renderTilePass2(mr, TileAt(mr.mapEngine, tileX, tileY))
                            \o <<PopTranslation>>,
                            <<tileX, tileY>>, "pass2")
                ELSE <<>>])

renderPass2(mr) ==
    Flat([k \in 1..SweepLen(mr) |->
            LET tileX == SweepX(mr, k)
                tileY == SweepY(mr, k)
            IN  IF IsTileVisible(mr, tileX, tileY)
                THEN Tagged(<<PushTranslationWorld(tileX, tileY)>>
                            \o renderTilePass2(mr, TileAt(mr.mapEngine, tileX, tileY))
                            \o renderEntities(mr, tileX, tileY)
                            \o <<PopTranslation>>,
                            <<tileX, tileY>>, "pass2")
                ELSE <<>>])

renderPass3(mr) ==
    Flat([k \in 1..SweepLen(mr) |->
            LET tileX == SweepX(mr, k)
                tileY == SweepY(mr, k)
            IN  IF IsTileVisible(mr, tileX, tileY)
                THEN Tagged(<<PushTranslationWorld(tileX, tileY)>>
                            \o renderTilePass3(mr, TileAt(mr.mapEngine, tileX, tileY))
                            \o <<PopTranslation>>,
                            <<tileX, tileY>>, "pass3")
                ELSE <<>>])

\* the sub-tile grid lines of renderTileDebug: for i := 1; i <= 4; i++
debugGrid ==
    Flat([i \in 1..4 |->
            <<PushTranslation(-(i * 16), i * 8),
              Call("DrawLine", "grid", i, 80, 40, NoImage),
              Pop,
              PushTranslation(i * 16, i * 8),
              Call("DrawLine", "grid", i, -80, 40, NoImage),
              Pop>>])

\* the labels of the special walls: for i, wall := range tile.Walls
debugSpecial(tile) ==
    Flat([i \in 1..Len(tile.Walls) |->
            IF Special(tile.Walls[i].Type)
            THEN <<PushTranslation(-20, 10 + i * 14),
                   Call("DrawText", "special", i, tile.Walls[i].Style,
                        tile.Walls[i].Sequence, NoImage),
                   Pop>>
            ELSE <<>>])

\* an index that numbers the 25 sub-cells of one tile consecutively
WalkIndexTileMajor(mr, ax, ay, xx, yy) ==
    ((ay * mr.mapEngine.size.Width + ax) * 25) + (yy * 5) + xx

\* an index whose rows are as long as the tile grid is wide
WalkIndexNarrow(mr, ax, ay, xx, yy) ==
    ((yy + (ay * 5)) * mr.mapEngine.size.Width) + xx + (ax * 5)

\* the index into WalkMesh of the sub-cell (xx, yy) of the tile (ax, ay)
WalkIndex(mr, ax, ay, xx, yy) ==
    ((yy + (ay * 5)) * mr.mapEngine.size.Width * 5) + xx + (ax * 5)

\* the markers of the sub-cells that are not walkable:
\* for yy := 0; yy < 5; yy++ { for xx := 0; xx < 5; xx++ { ... } }
debugWalk(mr, ax, ay) ==
    Flat([c \in 1..25 |->
            LET xx == (c - 1) % 5
                yy == (c - 1) \div 5
                walkableArea == mr.mapEngine.walkMesh[WalkIndex(mr, ax, ay, xx, yy) + 1]
            IN  IF ~walkableArea.Walkable
                THEN <<PushTranslation((xx - yy) * 16 - 3, (xx + yy) * 8 + 4),
                       Call("DrawRect", "walk", WalkIndex(mr, ax, ay, xx, yy),
                            5, 5, NoImage),
                       Pop>>
                ELSE <<>>])

\* a renderTileDebug that draws the sub-tile diagnostics from level 1 on
renderTileDebugAllAtLevel1(mr, ax, ay, level) ==
    LET s1 == WorldToScreen(mr, ax, ay)
        s2 == WorldToScreen(mr, ax + 1, ay)
        s3 == WorldToScreen(mr, ax, ay + 1)
    IN  <<PushTranslation(s1[1], s1[2]),
          Call("DrawLine", "edge", 1, s2[1] - s1[1], s2[2] - s1[2], NoImage),
          Call("DrawLine", "edge", 2, s3[1] - s1[1], s3[2] - s1[2], NoImage),
          PushTranslation(-10, 10),
          Call("DrawText", "coords", 0, ax, ay, NoImage),
          Pop>>
        \o (IF level > 0
            THEN debugGrid
                 \o debugSpecial(TileAt(mr.mapEngine, ax, ay))
                 \o debugWalk(mr, ax, ay)
            ELSE <<>>)
        \o <<Pop>>

renderTileDebug(mr, ax, ay, level) ==
    LET s1 == WorldToScreen(mr, ax, ay)
        s2 == WorldToScreen(mr, ax + 1, ay)
        s3 == WorldToScreen(mr, ax, ay + 1)
    IN  <<PushTranslation(s1[1], s1[2]),
          Call("DrawLine", "edge", 1, s2[1] - s1[1], s2[2] - s1[2], NoImage),
          Call("DrawLine", "edge", 2, s3[1] - s1[1], s3[2] - s1[2], NoImage),
          PushTranslation(-10, 10),
          Call("DrawText", "coords", 0, ax, ay, NoImage),
          Pop>>
        \o (IF level > 1
            THEN debugGrid
                 \o debugSpecial(TileAt(mr.mapEngine, ax, ay))
                 \o debugWalk(mr, ax, ay)
            ELSE <<>>)
        \o <<Pop>>

renderDebug(mr, level) ==
    Flat([k \in 1..SweepLen(mr) |->
            LET tileX == SweepX(mr, k)
                tileY == SweepY(mr, k)
            IN  IF IsTileVisible(mr, tileX, tileY)
                THEN Tagged(<<PushTranslationWorld(tileX, tileY)>>
                            \o renderTileDebug(mr, tileX, tileY, level)
                            \o <<PopTranslation>>,
                            <<tileX, tileY>>, "debug")
                ELSE <<>>])

\* a Render that draws the debug overlay after pass 2
RenderCallsDebugAfterPass2(mr) ==
    renderPass1(mr)
    \o renderPass2(mr)
    \o (IF mr.debugVisLevel > 0 THEN renderDebug(mr, mr.debugVisLevel) ELSE <<>>)
    \o renderPass3(mr)

\* the calls of MapRenderer.Render, in order
RenderCalls(mr) ==
    renderPass1(mr)
    \o (IF mr.debugVisLevel > 0 THEN renderDebug(mr, mr.debugVisLevel) ELSE <<>>)
    \o renderPass2(mr)
    \o renderPass3(mr)

\* the receiver: the renderer's fields and what its viewport reports
MR == [mapEngine |-> mapEngine, imageCache |-> imageCache,
       debugVisLevel |-> debugVisLevel, camera |-> camera,
       viewAlign |-> viewAlign, tileVisible |-> tileVisible,
       currentFrame |-> currentFrame]

\* a Render that also moves the animation on by one frame
RenderAdvancingFrame ==
    /\ LET vp == Exec(MR, transStack, transCurrent, RenderCalls(MR))
       IN  /\ transStack' = vp.stack
           /\ transCurrent' = vp.cur
           /\ calls' = vp.out
    /\ lastOp' = "Render"
    /\ currentFrame' = NextFrame(currentFrame, 1)
    /\ UNCHANGED <<mapEngine, imageCache, debugVisLevel, camera, viewAlign,
                   tileVisible, lastFrameTime, framesAdvanced, wrapped,
                   elapsedLog, fusedBuild, paletteVars>>

Render ==
    /\ LET vp == Exec(MR, transStack, transCurrent, RenderCalls(MR))
       IN  /\ transStack' = vp.stack
           /\ transCurrent' = vp.cur
           /\ calls' = vp.out
    /\ lastOp' = "Render"
    /\ UNCHANGED <<mapEngine, imageCache, debugVisLevel, camera, viewAlign,
                   tileVisible, clockVars, paletteVars>>

(***************************************************************************)
(* Construction and the other operations.                                  *)
(***************************************************************************)
GenerateCall == Call("generateTileCache", "", 0, 0, 0, NoImage)

\* if mapEngine.LevelType().Id != 0 { result.generateTileCache() }
CreateGeneratesAlways(me) == TRUE

CreateGenerates(me) == me.levelType # 0

\* the state CreateMapRenderer(me) returns; vis is what IsTileVisible
\* reports with the camera at its initial position
CreateMapRenderer(me, vis) ==
    /\ mapEngine = me
    /\ imageCache = IF CreateGenerates(me) THEN generateTileCache(me) ELSE {}
    /\ calls = IF CreateGenerates(me) THEN <<GenerateCall>> ELSE <<>>
    /\ debugVisLevel = 0
    /\ camera = <<0, 0>>
    /\ viewAlign = "center"
    /\ tileVisible = vis
    /\ transStack = <<>>
    /\ transCurrent = <<0, 0>>
    /\ lastOp = "CreateMapRenderer"

RegenerateTileCache ==
    /\ imageCache' = generateTileCache(mapEngine)
    /\ calls' = <<GenerateCall>>
    /\ lastOp' = "RegenerateTileCache"
    /\ UNCHANGED <<mapEngine, debugVisLevel, camera, viewAlign, tileVisible,
                   transStack, transCurrent, clockVars, paletteVars>>

SetMapEngineCalls(me) == <<GenerateCall>>

SetMapEngine(me) ==
    /\ mapEngine' = me
    /\ imageCache' = IF SetMapEngineCalls(me) # <<>>
                     THEN generateTileCache(me) ELSE imageCache
    /\ calls' = SetMapEngineCalls(me)
    /\ lastOp' = "SetMapEngine"
    /\ UNCHANGED <<debugVisLevel, camera, viewAlign, tileVisible,
                   transStack, transCurrent, clockVars, paletteVars>>

\* the action bound to "mapdebugvis": result.debugVisLevel = level
SetDebugVisLevel(level) ==
    /\ debugVisLevel' = level
    /\ calls' = <<>>
    /\ lastOp' = "mapdebugvis"
    /\ UNCHANGED <<mapEngine, imageCache, camera, viewAlign, tileVisible,
                   transStack, transCurrent, clockVars, paletteVars>>

CameraPositions == {<<0, 0>>, <<1, 2>>}

\* mr.camera.MoveTo(x, y); vis is what IsTileVisible reports from there
MoveCameraTo(x, y, vis) ==
    /\ camera' = <<x, y>>
    /\ tileVisible' = vis
    /\ calls' = <<>>
    /\ lastOp' = "MoveCameraTo"
    /\ UNCHANGED <<mapEngine, imageCache, debugVisLevel, viewAlign,
                   transStack, transCurrent, clockVars, paletteVars>>

\* mr.camera.MoveBy(x, y), within the positions of the model
MoveCameraBy(x, y, vis) ==
    /\ <<camera[1] + x, camera[2] + y>> \in CameraPositions
    /\ camera' = <<camera[1] + x, camera[2] + y>>
    /\ tileVisible' = vis
    /\ calls' = <<>>
    /\ lastOp' = "MoveCameraBy"
    /\ UNCHANGED <<mapEngine, imageCache, debugVisLevel, viewAlign,
                   transStack, transCurrent, clockVars, paletteVars>>

\* mr.viewport.toLeft(); vis is what IsTileVisible reports afterwards
ViewportToLeft(vis) ==
    /\ viewAlign' = "left"
    /\ tileVisible' = vis
    /\ calls' = <<>>
    /\ lastOp' = "ViewportToLeft"
    /\ UNCHANGED <<mapEngine, imageCache, debugVisLevel, camera,
                   transStack, transCurrent, clockVars, paletteVars>>

\* mr.viewport.toRight()
ViewportToRight(vis) ==
    /\ viewAlign' = "right"
    /\ tileVisible' = vis
    /\ calls' = <<>>
    /\ lastOp' = "ViewportToRight"
    /\ UNCHANGED <<mapEngine, imageCache, debugVisLevel, camera,
                   transStack, transCurrent, clockVars, paletteVars>>

\* mr.viewport.resetAlign()
ViewportDefault(vis) ==
    /\ viewAlign' = "center"
    /\ tileVisible' = vis
    /\ calls' = <<>>
    /\ lastOp' = "ViewportDefault"
    /\ UNCHANGED <<mapEngine, imageCache, debugVisLevel, camera,
                   transStack, transCurrent, clockVars, paletteVars>>

(***************************************************************************)
(* Specifications.                                                         *)
(***************************************************************************)
DebugLevels == {-1, 0, 1, 2, 3}

\* SpecRender: any map, any visibility, any debug level; Render and the
\* operations that change what it draws.
InitRender ==
    /\ \E me \in MapEngines, vis \in SUBSET AllTiles : CreateMapRenderer(me, vis)
    /\ InitClock(FALSE)
    /\ InitPalette

NextRender ==
    \/ Render
    \/ \E me \in MapEngines : SetMapEngine(me)
    \/ \E level \in DebugLevels : SetDebugVisLevel(level)
    \/ \E p \in CameraPositions, vis \in SUBSET AllTiles :
          MoveCameraTo(p[1], p[2], vis)

SpecRender == InitRender /\ [][NextRender]_vars

\* SpecClock: the animation clock alone, on either kind of build.
InitClockOnly ==
    /\ CreateMapRenderer(NoMap, {})
    /\ \E fused \in BOOLEAN : InitClock(fused)
    /\ InitPalette

NextClock == \E k \in ElapsedHundredths : Advance(k)

SpecClock == InitClockOnly /\ [][NextClock]_vars

\* SpecPalette: loadPaletteForAct alone.
InitPaletteOnly ==
    /\ CreateMapRenderer(NoMap, {})
    /\ InitClock(FALSE)
    /\ InitPalette

NextPalette ==
    \E levelType \in RegionIds, ok \in BOOLEAN : LoadPaletteForAct(levelType, ok)

SpecPalette == InitPaletteOnly /\ [][NextPalette]_vars

\* Spec: every public operation of the renderer, on a few inputs.
ApiMaps == {NoMap, MapEngineOf(1, MaxWidth, MaxHeight), MapEngineOf(3, 1, MaxHeight)}

ApiVisible == {AllTiles, {<<0, 0>>}}

Init ==
    /\ \E me \in ApiMaps, vis \in ApiVisible : CreateMapRenderer(me, vis)
    /\ InitClock(FALSE)
    /\ InitPalette

Next ==
    \/ Render
    \/ \E k \in {25, 125} : Advance(k)
    \/ \E me \in ApiMaps : SetMapEngine(me)
    \/ RegenerateTileCache
    \/ \E level \in {0, 2} : SetDebugVisLevel(level)
    \/ \E p \in CameraPositions, vis \in ApiVisible : MoveCameraTo(p[1], p[2], vis)
    \/ \E d \in {<<1, 2>>, <<-1, -2>>}, vis \in ApiVisible : MoveCameraBy(d[1], d[2], vis)
    \/ \E vis \in ApiVisible : ViewportToLeft(vis)
    \/ \E vis \in ApiVisible : ViewportToRight(vis)
    \/ \E vis \in ApiVisible : ViewportDefault(vis)

Spec == Init /\ [][Next]_vars

(***************************************************************************)
(* Properties.                                                             *)
(***************************************************************************)
IsViewportPush(c) == c.op \in {"PushTranslationWorld", "PushTranslationOrtho"}

IsViewportPop(c) == c.op = "PopTranslation"

IsImageDraw(c) == c.op = "Render"

IsLog(c) == c.op = "log.Printf"

IsDebugDraw(c) == c.op \in {"DrawLine", "DrawText", "DrawRect"}

IsDraw(c) == c.op \in {"Render", "entity.Render", "DrawLine", "DrawText", "DrawRect"}

IsTargetPush(c) == c.op \in {"PushTranslation", "PushColor"}

\* the sub-record a call of renderWall, renderFloor or renderShadow is for
SubRecordOf(me, c) ==
    LET t == TileAt(me, c.tile[1], c.tile[2])
    IN  IF c.what = "wall" THEN t.Walls[c.idx]
        ELSE IF c.what = "floor" THEN t.Floors[c.idx]
        ELSE t.Shadows[c.idx]

\* C1: Render leaves the viewport's translation stack as deep as it found
\* it, with the same current translation: every PushTranslationWorld and
\* PushTranslationOrtho it issues is matched by one PopTranslation, no
\* PopTranslation finds the stack empty, also when renderFloor, renderWall
\* or renderShadow return early on a cache miss.
C1_StackBalance ==
    [][lastOp' = "Render" =>
          /\ Len(transStack') = Len(transStack)
          /\ transCurrent' = transCurrent
          /\ Len(SelectSeq(calls', IsViewportPush)) = Len(SelectSeq(calls', IsViewportPop))
          /\ SelectSeq(calls', LAMBDA c : c.op = "panic") = <<>>]_vars

\* a Render that took the early return of a wall, a floor and a shadow and
\* drew a shadow, with the stack back at its depth
C1_Witness ==
    /\ lastOp = "Render"
    /\ transStack = <<>>
    /\ \E i, j, k, l \in 1..Len(calls) :
          /\ IsLog(calls[i]) /\ calls[i].what = "wall"
          /\ IsLog(calls[j]) /\ calls[j].what = "floor"
          /\ IsLog(calls[k]) /\ calls[k].what = "shadow"
          /\ IsImageDraw(calls[l]) /\ calls[l].what = "shadow"

\* C2 (as claimed): no image is drawn for a sub-record whose Hidden flag
\* is set, in any pass.
C2_HiddenNeverDrawn ==
    lastOp = "Render" =>
        \A i \in 1..Len(calls) :
            IsImageDraw(calls[i]) => ~SubRecordOf(mapEngine, calls[i]).Hidden

\* C3: the current frame is in [0, 9] after any sequence of Advance calls.
C3_FrameBound == currentFrame \in 0..9

\* an Advance that consumed more than 10 ticks in one call
C3_Witness ==
    /\ lastOp = "Advance"
    /\ framesAdvanced > 10
    /\ currentFrame \in 0..9

RECURSIVE TotalElapsed(_)
\* the float64 sum of the elapsed times of a log, and whether it is exact
TotalElapsed(log) ==
    IF log = <<>> THEN [f |-> FZero, exact |-> TRUE]
    ELSE LET t == TotalElapsed(SubSeq(log, 1, Len(log) - 1))
             r == FAddR(t.f, Dec(log[Len(log)]))
         IN  [f |-> r.f, exact |-> t.exact /\ r.exact]

\* C4 (as claimed): the Advance calls made since construction, whose
\* elapsed times sum exactly to T, leave the frame and accumulator that the
\* single call Advance(T) leaves, when neither crosses the 9 -> 0 wrap.
C4_NoDrift ==
    LET t   == TotalElapsed(elapsedLog)
        one == AdvanceState(0, FZero, t.f, fusedBuild)
    IN  (t.exact /\ ~wrapped /\ ~one.wrapped) =>
            /\ currentFrame = one.currentFrame
            /\ lastFrameTime = one.lastFrameTime

\* C5 (as claimed): from (0, 0), Advance(0.25) and Advance(0.25) again
\* consume 2 and then 3 ticks and leave frame 5 and accumulator 0.
C5_LiteralScenario ==
    /\ elapsedLog = <<25>> =>
          /\ framesAdvanced = 2
          /\ currentFrame = 2
    /\ elapsedLog = <<25, 25>> =>
          /\ framesAdvanced = 3
          /\ currentFrame = 5
          /\ lastFrameTime = FZero

\* C6: Render issues nothing for a tile the viewport reports not visible:
\* no translation push, no image draw, no entity render and no debug
\* primitive of any pass is made for such a tile.
C6_VisibilityGating ==
    lastOp = "Render" =>
        \A i \in 1..Len(calls) : calls[i].tile \in tileVisible

\* a Render with the debug overlay on, over a map that has an entity and
\* images to draw on a tile that is not visible, and a visible tile drawn
C6_Witness ==
    /\ lastOp = "Render"
    /\ debugVisLevel > 0
    /\ mapEngine.size.Width = MaxWidth
    /\ <<0, 0>> \notin tileVisible
    /\ TileAt(mapEngine, 0, 0).Walls # <<>>
    /\ \E i \in 1..Len(calls) : IsImageDraw(calls[i])
    /\ \E i \in 1..Len(calls) : calls[i].op = "entity.Render"

\* the map without sub-record idx of the list what of the tile at (x, y)
RemoveSubRecord(me, x, y, what, idx) ==
    LET k      == y * me.size.Width + x + 1
        t      == me.tiles[k]
        cut(l) == SubSeq(l, 1, idx - 1) \o SubSeq(l, idx + 1, Len(l))
    IN  [me EXCEPT !.tiles[k] =
            IF what = "wall" THEN [t EXCEPT !.Walls = cut(t.Walls)]
            ELSE IF what = "floor" THEN [t EXCEPT !.Floors = cut(t.Floors)]
            ELSE [t EXCEPT !.Shadows = cut(t.Shadows)]]

\* the draw calls of a trace, in order, each without the position of its
\* sub-record in the tile's list
DrawSeq(cs) ==
    LET ds == SelectSeq(cs, IsDraw)
    IN  [i \in 1..Len(ds) |->
            [ds[i] EXCEPT !.idx =
                IF ds[i].what \in {"wall", "floor", "shadow", "special"}
                THEN 0 ELSE ds[i].idx]]

IsPush(c) == IsViewportPush(c) \/ IsTargetPush(c)

\* what Render issues on the map without the sub-record the call c is for
RenderWithout(c) ==
    LET me == RemoveSubRecord(mapEngine, c.tile[1], c.tile[2], c.what, c.idx)
        mr == [MR EXCEPT !.mapEngine = me]
    IN  Exec(mr, transStack, transCurrent, RenderCalls(mr)).out

\* C7: a sub-record whose image lookup returns absent is skipped alone:
\* Render draws nothing for it and pushes no translation for it, and the
\* draw calls of all passes are, in order, the draw calls Render issues
\* with that sub-record removed from its tile.
C7_CacheMissResilience ==
    lastOp = "Render" =>
        \A i \in 1..Len(calls) :
            IsLog(calls[i]) =>
                /\ \A j \in 1..Len(calls) :
                      ~(/\ IsImageDraw(calls[j])
                        /\ calls[j].tile = calls[i].tile
                        /\ calls[j].what = calls[i].what
                        /\ calls[j].idx = calls[i].idx)
                /\ DrawSeq(calls) = DrawSeq(RenderWithout(calls[i]))
                /\ Len(SelectSeq(calls, IsPush)) = Len(SelectSeq(RenderWithout(calls[i]), IsPush))

\* a Render with a cache miss followed, in the same tile and pass, by an
\* image draw, and by draws of pass 2 and pass 3
C7_Witness ==
    /\ lastOp = "Render"
    /\ \E i, j, k, l \in 1..Len(calls) :
          /\ i < j /\ j < k /\ k < l
          /\ IsLog(calls[i]) /\ calls[i].pass = "pass1"
          /\ IsImageDraw(calls[j]) /\ calls[j].pass = "pass1"
          /\ calls[j].tile = calls[i].tile
          /\ IsImageDraw(calls[k]) /\ calls[k].pass = "pass2"
          /\ IsImageDraw(calls[l]) /\ calls[l].pass = "pass3"

\* the layer a draw call belongs to: 1 lower walls, floors and shadows,
\* 2 debug primitives, 3 upper walls and entities, 4 roofs
Layer(c) ==
    IF IsDebugDraw(c) THEN 2
    ELSE IF c.op = "entity.Render" THEN 3
    ELSE IF c.what \in {"floor", "shadow"} THEN 1
    ELSE IF LowerWall(SubRecordOf(mapEngine, c).Type) THEN 1
    ELSE IF SubRecordOf(mapEngine, c).Type = Roof THEN 4
    ELSE 3

\* the visible tiles of the bound map
VisibleTiles ==
    {t \in tileVisible : t[1] < mapEngine.size.Width
                         /\ t[2] < mapEngine.size.Height}

IsTileLabel(c) == c.op = "DrawText" /\ c.what = "coords"

\* C8: within one Render every lower-wall, floor and shadow draw of all
\* visible tiles precedes every upper-wall and entity draw, which precede
\* every roof draw; the debug sweep runs, over every visible tile, exactly
\* when the debug level is above 0, between pass 1 and pass 2.
C8_PassOrdering ==
    lastOp = "Render" =>
        LET ds == SelectSeq(calls, IsDraw)
        IN  /\ \A i \in 1..(Len(ds) - 1) : Layer(ds[i]) <= Layer(ds[i + 1])
            /\ Len(SelectSeq(calls, IsTileLabel)) =
                   IF debugVisLevel > 0 THEN Cardinality(VisibleTiles) ELSE 0

\* a Render with the debug overlay that drew in every layer
C8_Witness ==
    /\ lastOp = "Render"
    /\ debugVisLevel > 0
    /\ \A layer \in 1..4 :
          \E i \in 1..Len(calls) : IsDraw(calls[i]) /\ Layer(calls[i]) = layer

IsGenerate(c) == c.op = "generateTileCache"

\* C9: the tile cache is generated when the renderer is constructed over a
\* map engine whose level type id is not 0, and only then at construction;
\* SetMapEngine and RegenerateTileCache always generate it, for the map
\* then bound; no other operation generates it.
C9_CacheGeneration ==
    /\ lastOp = "CreateMapRenderer" =>
          /\ Len(SelectSeq(calls, IsGenerate)) = IF mapEngine.levelType # 0 THEN 1 ELSE 0
          /\ mapEngine.levelType = 0 => imageCache = {}
    /\ lastOp \in {"SetMapEngine", "RegenerateTileCache"} =>
          Len(SelectSeq(calls, IsGenerate)) = 1
    /\ lastOp \notin {"CreateMapRenderer", "SetMapEngine", "RegenerateTileCache"} =>
          Len(SelectSeq(calls, IsGenerate)) = 0
    /\ Len(SelectSeq(calls, IsGenerate)) = 1 => imageCache = generateTileCache(mapEngine)

\* SetMapEngine with a map of level type 0 on a renderer that has advanced
\* its clock: the cache is generated all the same
C9_Witness ==
    /\ lastOp = "SetMapEngine"
    /\ mapEngine.levelType = 0
    /\ Len(SelectSeq(calls, IsGenerate)) = 1
    /\ elapsedLog # <<>>

\* C10: loadPaletteForAct on a region outside the five act groups returns
\* the lookup error and no palette and loads nothing; on a region of an act
\* group it asks d2asset.LoadPalette exactly once, for that act's path.
C10_PaletteResolution ==
    lastOp = "loadPaletteForAct" =>
        IF regionArg \in OtherRegions
        THEN /\ calls = <<>>
             /\ palette = Nil
             /\ paletteErr = "failed to find palette for region"
        ELSE /\ Len(calls) = 1
             /\ calls[1].op = "d2asset.LoadPalette"
             /\ calls[1].what \in PalettePaths
             /\ regionArg \in Act1Regions <=> calls[1].what = "PaletteAct1"
             /\ regionArg \in Act2Regions <=> calls[1].what = "PaletteAct2"
             /\ regionArg \in Act3Regions <=> calls[1].what = "PaletteAct3"
             /\ regionArg \in Act4Regions <=> calls[1].what = "PaletteAct4"
             /\ regionArg \in Act5Regions <=> calls[1].what = "PaletteAct5"
             /\ paletteErr # "failed to find palette for region"

\* a call on an unrecognised region after a successful load
C10_Witness ==
    /\ lastOp = "loadPaletteForAct"
    /\ regionArg \in OtherRegions
    /\ palette = Nil
    /\ paletteLoads # <<>>

\* the calls that draw a marker of the walk mesh
IsMarker(c) == c.op = "DrawRect"

\* C11: at debug level 2 and above, the walk mesh entry consulted for the
\* sub-cell (subX, subY) of the visible tile (tileX, tileY) of a map W
\* tiles wide is number ((subY + tileY*5) * W*5) + subX + tileX*5, which is
\* 5*W + 2 for the tile (0, 0) and the sub-cell (2, 1); a marker is drawn
\* at the sub-cell's isometric offset (the translation pushed by the
\* call before it) exactly when that entry is not walkable.
C11_OverlayIndexing ==
    lastOp = "Render" =>
        LET W == mapEngine.size.Width
            expected ==
                IF debugVisLevel < 2 THEN {}
                ELSE {<<t, (c[1] - c[2]) * 16 - 3, (c[1] + c[2]) * 8 + 4>> :
                         <<t, c>> \in
                            {p \in VisibleTiles \X ((0..4) \X (0..4)) :
                                ~mapEngine.walkMesh[
                                    ((p[2][2] + p[1][2] * 5) * (W * 5))
                                    + p[2][1] + p[1][1] * 5 + 1].Walkable}}
        IN  /\ {<<calls[i].tile, calls[i - 1].x, calls[i - 1].y>> :
                   i \in {j \in 2..Len(calls) : IsMarker(calls[j])}} = expected
            /\ Len(SelectSeq(calls, IsMarker)) = Cardinality(expected)
            /\ WalkIndex(MR, 0, 0, 2, 1) = (1 * 5 * W) + 2

\* a Render at debug level 2 over a map two tiles wide that drew a marker
\* for the tile (1, 1) and left a sub-cell of that tile unmarked
C11_Witness ==
    /\ lastOp = "Render"
    /\ debugVisLevel >= 2
    /\ mapEngine.size.Width = 2
    /\ <<1, 1>> \in tileVisible
    /\ \E i \in 1..Len(calls) : IsMarker(calls[i]) /\ calls[i].tile = <<1, 1>>
    /\ Len(SelectSeq(calls, IsMarker)) < 25 * Cardinality(VisibleTiles)

\* The calls renderWall, renderFloor, renderShadow and the entity loop end
\* in, for one pass and in order: the draw, or the log line of a cache
\* miss.
Attempts(cs, pass) ==
    SelectSeq(cs, LAMBDA c : /\ c.pass = pass
                             /\ c.op \in {"Render", "log.Printf", "entity.Render"})

\* Whether the calls as follow the sweep.  The position of a call in the
\* sweep is its row, its column, the loop of the tile it is issued in
\* (walls 1, floors 2, shadows 3, entities 4) and the index in the list
\* looped over; positions are ordered lexicographically.
InSweepOrder(as) ==
    LET key(c) == <<c.tile[2], c.tile[1],
                    IF c.what = "wall" THEN 1 ELSE IF c.what = "floor" THEN 2
                    ELSE IF c.what = "shadow" THEN 3 ELSE 4,
                    c.idx>>
    IN  \A i \in 1..(Len(as) - 1) :
            \E n \in 1..4 :
                /\ key(as[i])[n] < key(as[i + 1])[n]
                /\ \A m \in 1..(n - 1) : key(as[i])[m] = key(as[i + 1])[m]

\* the sub-records of the visible tiles that pass 1 is to draw
Pass1Eligible ==
    UNION {
        LET tile == TileAt(mapEngine, t[1], t[2])
        IN  {<<t, "wall", i>> : i \in {j \in 1..Len(tile.Walls) :
                ~tile.Walls[j].Hidden /\ tile.Walls[j].Prop1 # 0
                /\ tile.Walls[j].Type \in 16..19}}
            \cup
            {<<t, "floor", i>> : i \in {j \in 1..Len(tile.Floors) :
                ~tile.Floors[j].Hidden /\ tile.Floors[j].Prop1 # 0}}
            \cup
            {<<t, "shadow", i>> : i \in {j \in 1..Len(tile.Shadows) :
                ~tile.Shadows[j].Hidden /\ tile.Shadows[j].Prop1 # 0}}
        : t \in VisibleTiles}

\* C12: pass 1 visits the tiles row by row (y outer, x inner); in each
\* visible tile it handles the lower walls that are not hidden and have
\* prop1 set, in list order, then the floors that are not hidden and have
\* prop1 set, then such shadows; it handles nothing else (no floor or
\* shadow with prop1 = 0), and everything of one tile before anything of a
\* later tile.  A sub-record is handled by drawing its image or, on a cache
\* miss, by logging it.
C12_Pass1Order ==
    lastOp = "Render" =>
        LET as == Attempts(calls, "pass1")
        IN  /\ InSweepOrder(as)
            /\ {<<as[i].tile, as[i].what, as[i].idx>> : i \in 1..Len(as)} = Pass1Eligible

\* a Render whose pass 1 drew a wall, a floor and a shadow of one tile and
\* then an image of a later tile, over a map with a visible tile that has
\* a floor without prop1
C12_Witness ==
    /\ lastOp = "Render"
    /\ \E t \in VisibleTiles :
          \E f \in 1..Len(TileAt(mapEngine, t[1], t[2]).Floors) :
              TileAt(mapEngine, t[1], t[2]).Floors[f].Prop1 = 0
    /\ \E i, j, k, l \in 1..Len(calls) :
          /\ i < j /\ j < k /\ k < l
          /\ \A n \in {i, j, k, l} : IsImageDraw(calls[n]) /\ calls[n].pass = "pass1"
          /\ calls[i].what = "wall" /\ calls[j].what = "floor"
          /\ calls[k].what = "shadow"
          /\ calls[i].tile = calls[j].tile /\ calls[j].tile = calls[k].tile
          /\ calls[l].tile # calls[k].tile

\* the tile an entity stands on: its position truncated to integers
EntityTile(me, e) == <<TruncHalf(me.entities[e][1]), TruncHalf(me.entities[e][2])>>

\* C13: in one Render the self-draw of an entity is invoked once when the
\* tile at its truncated position is inside the grid and visible, and not
\* at all otherwise; it is invoked in the sweep step of that tile only.
C13_EntityOnce ==
    lastOp = "Render" =>
        \A e \in 1..Len(mapEngine.entities) :
            LET drawn == {i \in 1..Len(calls) :
                            calls[i].op = "entity.Render" /\ calls[i].idx = e}
            IN  /\ Cardinality(drawn) =
                       IF EntityTile(mapEngine, e) \in VisibleTiles THEN 1 ELSE 0
                /\ \A i \in drawn : calls[i].tile = EntityTile(mapEngine, e)

\* a Render that drew an entity, among them one at a negative coordinate
\* that truncates to 0, with another entity on a tile of the grid that is
\* not visible and a third outside the grid
C13_Witness ==
    /\ lastOp = "Render"
    /\ \E i \in 1..Len(calls) :
          /\ calls[i].op = "entity.Render"
          /\ mapEngine.entities[calls[i].idx][1] < 0
    /\ \E e \in 1..Len(mapEngine.entities) :
          /\ EntityTile(mapEngine, e)[1] < mapEngine.size.Width
          /\ EntityTile(mapEngine, e)[2] < mapEngine.size.Height
          /\ EntityTile(mapEngine, e) \notin tileVisible
    /\ \E e \in 1..Len(mapEngine.entities) :
          EntityTile(mapEngine, e)[1] >= mapEngine.size.Width

\* the walls and entities of the visible tiles that pass 2 is to draw
Pass2Eligible ==
    UNION {
        LET tile == TileAt(mapEngine, t[1], t[2])
        IN  {<<t, "wall", i>> : i \in {j \in 1..Len(tile.Walls) :
                ~tile.Walls[j].Hidden
                /\ tile.Walls[j].Type \in (1..9) \cup {12, 14}}}
            \cup
            {<<t, "entity", e>> : e \in {d \in 1..Len(mapEngine.entities) :
                EntityTile(mapEngine, d) = t}}
        : t \in VisibleTiles}

\* C14: pass 2 visits the tiles row by row; in each visible tile it handles
\* the upper walls that are not hidden, with or without prop1, in list
\* order, then the entities on that tile in the order of the map engine's
\* list, and all of this before anything of a later tile.
C14_Pass2Order ==
    lastOp = "Render" =>
        LET as == Attempts(calls, "pass2")
        IN  /\ InSweepOrder(as)
            /\ {<<as[i].tile, as[i].what, as[i].idx>> : i \in 1..Len(as)} = Pass2Eligible

\* a Render whose pass 2 drew an upper wall without prop1, then two
\* entities of the same tile, then a wall of a later tile
C14_Witness ==
    /\ lastOp = "Render"
    /\ \E i, j, k, l \in 1..Len(calls) :
          /\ i < j /\ j < k /\ k < l
          /\ \A n \in {i, j, k, l} : calls[n].pass = "pass2"
          /\ IsImageDraw(calls[i])
          /\ SubRecordOf(mapEngine, calls[i]).Prop1 = 0
          /\ calls[j].op = "entity.Render" /\ calls[k].op = "entity.Render"
          /\ calls[j].tile = calls[i].tile /\ calls[k].tile = calls[i].tile
          /\ IsImageDraw(calls[l]) /\ calls[l].tile # calls[i].tile

AccumulatorInRange(t) == ~t.neg /\ FLess(t, frameLength)

\* C16 (as claimed): an Advance with a non-negative elapsed time, called
\* with the accumulator in [0, frame duration), leaves the accumulator in
\* [0, frame duration).
C16_AccumulatorRange ==
    [][(lastOp' = "Advance" /\ AccumulatorInRange(lastFrameTime))
           => AccumulatorInRange(lastFrameTime')]_vars

\* the walls of the tile t that carry a special shape type
SpecialWalls(t) ==
    {i \in 1..Len(TileAt(mapEngine, t[1], t[2]).Walls) :
        TileAt(mapEngine, t[1], t[2]).Walls[i].Type \in {10, 11}}

\* C17: at debug level 0 or below Render draws no line, text or
\* rectangle; at level 1 it draws for each visible tile two lines and one
\* label and nothing else; at level 2 and above it draws for each visible
\* tile the two edges and eight grid lines, the coordinate label and one
\* label per special wall; rectangles (the markers of sub-cells that are
\* not walkable) are drawn at level 2 and above only.
C17_DebugLevelGating ==
    LET CallsOf(op, t) ==
            Cardinality({i \in 1..Len(calls) :
                            calls[i].op = op /\ calls[i].tile = t})
    IN  lastOp = "Render" =>
            /\ debugVisLevel <= 0 => SelectSeq(calls, IsDebugDraw) = <<>>
            /\ debugVisLevel = 1 =>
                  /\ Len(SelectSeq(calls, IsDebugDraw)) = 3 * Cardinality(VisibleTiles)
                  /\ \A t \in VisibleTiles :
                        /\ CallsOf("DrawLine", t) = 2
                        /\ CallsOf("DrawText", t) = 1
                        /\ CallsOf("DrawRect", t) = 0
            /\ debugVisLevel >= 2 =>
                  \A t \in VisibleTiles :
                      /\ CallsOf("DrawLine", t) = 2 + 8
                      /\ CallsOf("DrawText", t) = 1 + Cardinality(SpecialWalls(t))

\* a Render at level 1 over visible tiles, one with a special wall and
\* sub-cells that are not walkable, that drew labels
C17_Witness ==
    /\ lastOp = "Render"
    /\ debugVisLevel = 1
    /\ \E t \in VisibleTiles : SpecialWalls(t) # {}
    /\ \E i \in 1..Len(mapEngine.walkMesh) : ~mapEngine.walkMesh[i].Walkable
    /\ Len(SelectSeq(calls, IsTileLabel)) >= 2

\* C18: Render leaves the frame index, the accumulator, the debug level,
\* the camera position and the bound map engine (tile records, entity list
\* and walk mesh) as they were; Advance changes nothing of the renderer
\* but the frame index and the accumulator.
C18_ReadOnly ==
    [][/\ lastOp' = "Render" =>
             UNCHANGED <<currentFrame, lastFrameTime, debugVisLevel, camera,
                         mapEngine, imageCache, palette>>
       /\ lastOp' = "Advance" =>
             UNCHANGED <<mapEngine, imageCache, debugVisLevel, camera,
                         viewAlign, tileVisible, transStack, transCurrent,
                         palette>>]_vars

\* a Render that issued calls over a loaded map, with the debug overlay
\* on, after the camera has moved and the clock has advanced
C18_Witness ==
    /\ lastOp = "Render"
    /\ calls # <<>>
    /\ mapEngine.entities # <<>>
    /\ debugVisLevel > 0
    /\ camera # <<0, 0>>
    /\ currentFrame > 0
    /\ lastFrameTime # FZero

\* One call applied to the surface s: stack is what the renderer has pushed
\* and not popped (the names of the pushing calls); under tells whether a
\* pop found less than it removes;
\* bare whether something was drawn with no translation pushed; tinted
\* whether something other than a shadow image was drawn under a tint;
\* left whether a PopN left a tint behind.
SurfaceCall(s, c) ==
    IF c.op \in {"Pop", "PopN"}
    THEN [s EXCEPT
            !.stack = IF c.idx > Len(s.stack) THEN <<>>
                      ELSE SubSeq(s.stack, 1, Len(s.stack) - c.idx),
            !.under = s.under \/ c.idx > Len(s.stack),
            !.left  = s.left \/ (c.op = "PopN" /\ c.idx < Len(s.stack))]
    ELSE IF IsDraw(c)
    THEN [s EXCEPT
            !.bare   = s.bare
                       \/ SelectSeq(s.stack, LAMBDA p : p = "PushTranslation") = <<>>,
            !.tinted = s.tinted
                       \/ (/\ SelectSeq(s.stack, LAMBDA p : p = "PushColor") # <<>>
                           /\ ~(IsImageDraw(c) /\ c.what = "shadow"))]
    ELSE IF IsTargetPush(c)
    THEN [s EXCEPT !.stack = Append(s.stack, c.op)]
    ELSE s

RECURSIVE SurfaceRange(_, _, _, _)
\* cs[lo..hi] applied in order to the surface s, which is as the calls
\* before them left it
SurfaceRange(s, cs, lo, hi) ==
    IF lo > hi THEN s
    ELSE IF lo = hi THEN SurfaceCall(s, cs[lo])
    ELSE LET mid  == (lo + hi) \div 2
             left == SurfaceRange(s, cs, lo, mid)
         IN  IF Len(left.stack) >= 0
             THEN SurfaceRange(left, cs, mid + 1, hi)
             ELSE left

\* C19: Render leaves the surface's stack of translations and tints as
\* deep as it found it and never pops below that depth; every image, line,
\* text, rectangle and entity is drawn with a translation of the renderer
\* pushed; the tint renderShadow pushes is popped, with its translation,
\* by PopN(2), and nothing but shadow images is drawn under it.
C19_SurfaceBalance ==
    lastOp = "Render" =>
        SurfaceRange([stack |-> <<>>, under |-> FALSE, bare |-> FALSE,
                      tinted |-> FALSE, left |-> FALSE], calls, 1, Len(calls))
            = [stack |-> <<>>, under |-> FALSE, bare |-> FALSE,
               tinted |-> FALSE, left |-> FALSE]

\* a Render that drew a shadow under its tint, later an entity, and a
\* label of the debug overlay under two translations
C19_Witness ==
    /\ lastOp = "Render"
    /\ \E i, j, k \in 1..Len(calls) :
          /\ i < j /\ j < k
          /\ calls[i].op = "PushColor"
          /\ IsTileLabel(calls[j])
          /\ calls[k].op = "entity.Render"

\* C20: over a map W tiles wide and H high whose walk mesh has 25*W*H
\* entries, the index the debug overlay computes for a tile of the grid and
\* a sub-cell in 0..4 x 0..4 lies in [0, 25*W*H), and two different pairs
\* of tile and sub-cell get different indices (there are as many indices
\* as pairs).
C20_WalkIndexInBounds ==
    LET W == mapEngine.size.Width
        H == mapEngine.size.Height
        SubCells == ((0..(W - 1)) \X (0..(H - 1))) \X ((0..4) \X (0..4))
    IN  Len(mapEngine.walkMesh) = 25 * W * H =>
            /\ \A p \in SubCells :
                  WalkIndex(MR, p[1][1], p[1][2], p[2][1], p[2][2])
                      \in 0..(25 * W * H - 1)
            /\ Cardinality({WalkIndex(MR, p[1][1], p[1][2], p[2][1], p[2][2]) :
                                p \in SubCells}) = Cardinality(SubCells)

\* a Render at debug level 2 or above over a map 2 tiles wide and 2 high
\* that consulted the last entry of the walk mesh and drew its marker
C20_Witness ==
    /\ lastOp = "Render"
    /\ debugVisLevel >= 2
    /\ mapEngine.size.Width = 2 /\ mapEngine.size.Height = 2
    /\ \E i \in 2..Len(calls) :
          /\ IsMarker(calls[i])
          /\ calls[i].tile = <<1, 1>>
          /\ calls[i - 1].x = (4 - 4) * 16 - 3
          /\ calls[i - 1].y = (4 + 4) * 8 + 4
    /\ ~mapEngine.walkMesh[Len(mapEngine.walkMesh)].Walkable

====
